---- MODULE Spec2Model ----
(***************************************************************************)
(* Model of the book recommender of src/code.py: the prefix tree (TrieNode,*)
(* Trie), the index construction and query pipeline                        *)
(* (TrieBasedRecommender) and the part of the page script that decides     *)
(* whether the index is built and how recommend_books is called.           *)
(*                                                                         *)
(* Strings are sequences of one-character strings, so that lower(),        *)
(* split() and strip() are computed character by character.  Python        *)
(* identifiers are 0-based; TLA+ sequences are 1-based (see Iloc).         *)
(***************************************************************************)
EXTENDS Integers, Sequences, FiniteSets, Bags, TLC

VARIABLES
    columns,             \* books_df.columns: the column names of the loaded table
    books_df,            \* the rows of the loaded table, in dataset order
    order,               \* the order in which the constructor visits the rows
    pc,                  \* position of the page script (or "trie" for the bare Trie)
    errors,              \* the messages st.error has shown, in order
    constructed,         \* TRUE iff `recommender` is bound to a TrieBasedRecommender
    trie,                \* the Trie (its root TrieNode); empty until one is built
    calls,               \* history: the Trie.insert calls made so far, <<word, index>>
    searched,            \* TRUE iff Trie.search has been called directly
    prefix,              \* argument of the last Trie.search call made directly
    found,               \* result of the last Trie.search call made directly
    search_query,        \* arguments and locals of the script's recommendation step
    selected_author,
    selected_genre,
    selected_rating,
    called,              \* TRUE iff recommend_books has been called
    recommended_indices, \* recommend_books' local candidate list
    recommended_books    \* the list the script ends with

vars == <<columns, books_df, order, pc, errors, constructed, trie, calls,
          searched, prefix, found,
          search_query, selected_author, selected_genre, selected_rating,
          called, recommended_indices, recommended_books>>

-----------------------------------------------------------------------------
(* Bounds of the model *)

MaxBooks == 2       \* rows in the dataset
MaxWordLen == 2     \* length of a word handed to Trie.insert / Trie.search directly
MaxInserts == 2     \* direct Trie.insert calls

-----------------------------------------------------------------------------
(* Strings *)

Space == " "

\* str.isspace for one character
IsSpace(c) == c = Space

\* str.lower for one character (the model's only cased letter is A/a)
LowerChar(c) == IF c = "A" THEN "a" ELSE c

\* str.lower()
Lower(s) == [i \in DOMAIN s |-> LowerChar(s[i])]

\* `not s.strip()`: nothing is left once the whitespace is stripped
Blank(s) == \A i \in DOMAIN s : IsSpace(s[i])

\* str.split(): the maximal runs of non-whitespace characters, in order.
\* `cur` is the run being read.
RECURSIVE SplitFrom(_, _)
SplitFrom(s, cur) ==
    IF s = <<>>
    THEN IF cur = <<>> THEN <<>> ELSE <<cur>>
    ELSE IF IsSpace(Head(s))
         THEN (IF cur = <<>> THEN <<>> ELSE <<cur>>) \o SplitFrom(Tail(s), <<>>)
         ELSE SplitFrom(Tail(s), Append(cur, Head(s)))

Split(s) == SplitFrom(s, <<>>)

-----------------------------------------------------------------------------
(* TrieNode and Trie *)

\* TrieNode(): children is the dict in insertion order, as a sequence of
\* [char, node] items with distinct chars
TrieNode == [children |-> <<>>, is_end |-> FALSE, book_indices |-> <<>>]

\* Trie(): the root node
Trie == TrieNode

\* `char in node.children`
HasChild(node, char) == \E i \in DOMAIN node.children : node.children[i].char = char

\* position of char among the dict's items
ChildPos(children, char) == CHOOSE i \in DOMAIN children : children[i].char = char

\* node.children[char]
Child(node, char) == node.children[ChildPos(node.children, char)].node

\* The final node of insert: the index appended without is_end (mutant)
MarkEndNoFlag(node, index) == [node EXCEPT !.book_indices = Append(@, index)]

\* The final node of insert: the index replaces the list (mutant)
MarkEndOverwrite(node, index) ==
    [node EXCEPT !.is_end = TRUE, !.book_indices = <<index>>]

\* node.is_end = True; node.book_indices.append(index)
MarkEnd(node, index) ==
    [node EXCEPT !.is_end = TRUE, !.book_indices = Append(@, index)]

\* Trie.insert from `node` on: the loop over the word's characters, creating
\* the missing child, then the update of the node reached
RECURSIVE InsertAt(_, _, _)
InsertAt(node, word, index) ==
    IF word = <<>>
    THEN MarkEnd(node, index)
    ELSE LET char == Head(word)
             kids == IF HasChild(node, char)
                     THEN node.children
                     ELSE Append(node.children, [char |-> char, node |-> TrieNode])
             i == ChildPos(kids, char)
         IN  [node EXCEPT !.children =
                 [kids EXCEPT ![i].node = InsertAt(kids[i].node, Tail(word), index)]]

\* Trie.insert(word, index)
insert(t, word, index) == InsertAt(t, word, index)

\* Trie._collect_indices without the descent into the children (mutant)
CollectOwn(node) == IF node.is_end THEN node.book_indices ELSE <<>>

\* Trie._collect_indices: the node's own indices, then each child's, in the
\* dict's order
RECURSIVE CollectChildren(_, _)
RECURSIVE CollectRec(_)
CollectChildren(children, i) ==
    IF i > Len(children)
    THEN <<>>
    ELSE CollectRec(children[i].node) \o CollectChildren(children, i + 1)

CollectRec(node) ==
    (IF node.is_end THEN node.book_indices ELSE <<>>)
        \o CollectChildren(node.children, 1)

_collect_indices(node) == CollectRec(node)

\* Trie.search that skips a missing character instead of returning [] (mutant)
RECURSIVE SearchSkipMissing(_, _)
SearchSkipMissing(node, p) ==
    IF p = <<>>
    THEN _collect_indices(node)
    ELSE IF ~HasChild(node, Head(p))
         THEN SearchSkipMissing(node, Tail(p))
         ELSE SearchSkipMissing(Child(node, Head(p)), Tail(p))

\* Trie.search from `node` on: the walk along the prefix, [] at the first
\* missing character, else the collection below the node reached
RECURSIVE SearchFrom(_, _)
SearchFrom(node, p) ==
    IF p = <<>>
    THEN _collect_indices(node)
    ELSE IF ~HasChild(node, Head(p))
         THEN <<>>
         ELSE SearchFrom(Child(node, Head(p)), Tail(p))

\* Trie.search(prefix)
search(t, p) == SearchFrom(t, p)

-----------------------------------------------------------------------------
(* TrieBasedRecommender *)

\* The filter value that lets every record pass
ALL == <<"A", "l", "l">>

\* range(n): the identifiers 0 .. n-1 in order
Range(n) == [i \in 1..n |-> i - 1]

\* books_df.iloc[idx]
Iloc(df, idx) == df[idx + 1]

\* f"{book['title']} {book['authors']} {book['genre']}"
SearchableText(book) ==
    book["title"] \o <<Space>> \o book["authors"] \o <<Space>> \o book["genre"]

\* The insert calls one row causes: one per word of its lowercased text
WordCalls(words, idx) == [i \in DOMAIN words |-> <<words[i], idx>>]

\* The insert calls of the constructor's loop over the rows still to visit
RECURSIVE IndexCalls(_, _)
IndexCalls(df, todo) ==
    IF todo = <<>>
    THEN <<>>
    ELSE WordCalls(Split(Lower(SearchableText(Iloc(df, Head(todo))))), Head(todo))
             \o IndexCalls(df, Tail(todo))

\* A trie after a sequence of insert calls
RECURSIVE InsertAll(_, _)
InsertAll(t, cs) ==
    IF cs = <<>>
    THEN t
    ELSE InsertAll(insert(t, Head(cs)[1], Head(cs)[2]), Tail(cs))

\* The query as handed to Trie.search, stripped first (mutant)
QueryKeyStripped(q) ==
    LET words == Split(Lower(q)) IN IF words = <<>> THEN <<>> ELSE words[1]

\* search_query.lower(), the argument of Trie.search
QueryKey(q) == Lower(q)

\* The candidates taken from the trie whatever the query (mutant)
CandidatesAlwaysTrie(df, t, q) == search(t, QueryKey(q))

\* recommended_indices: every identifier for a blank query, else the search
Candidates(df, t, q) ==
    IF Blank(q) THEN Range(Len(df)) ELSE search(t, QueryKey(q))

\* The condition of the comprehension with "All" compared as a value (mutant)
KeepNoSentinel(book, author, genre, min_rating) ==
    /\ book["authors"] = author
    /\ book["genre"] = genre
    /\ book["average_rating"] >= min_rating

\* The condition of the list comprehension
Keep(book, author, genre, min_rating) ==
    /\ (author = ALL \/ book["authors"] = author)
    /\ (genre = ALL \/ book["genre"] = genre)
    /\ book["average_rating"] >= min_rating

\* The list comprehension: the rows of the candidates that pass, in order
RECURSIVE Filtered(_, _, _, _, _)
Filtered(df, indices, author, genre, min_rating) ==
    IF indices = <<>>
    THEN <<>>
    ELSE (IF Keep(Iloc(df, Head(indices)), author, genre, min_rating)
          THEN <<Iloc(df, Head(indices))>>
          ELSE <<>>)
         \o Filtered(df, Tail(indices), author, genre, min_rating)

\* Number of leading rows of a sorted list rated at least / more than r
RECURSIVE CountGE(_, _)
CountGE(s, r) ==
    IF s = <<>> \/ Head(s)["average_rating"] < r THEN 0 ELSE 1 + CountGE(Tail(s), r)

RECURSIVE CountGT(_, _)
CountGT(s, r) ==
    IF s = <<>> \/ Head(s)["average_rating"] <= r THEN 0 ELSE 1 + CountGT(Tail(s), r)

InsertAtPos(s, k, x) == SubSeq(s, 1, k) \o <<x>> \o SubSeq(s, k + 1, Len(s))

\* A descending sort that puts a row before the rows of equal rating (mutant)
RECURSIVE SortUnstable(_)
SortUnstable(s) ==
    IF s = <<>>
    THEN <<>>
    ELSE LET front == SortUnstable(SubSeq(s, 1, Len(s) - 1))
             x == s[Len(s)]
         IN  InsertAtPos(front, CountGT(front, x["average_rating"]), x)

\* list.sort(key=average_rating, reverse=True): descending, and stable, so a
\* row goes after the rows already placed whose rating is at least its own
RECURSIVE SortByRating(_)
SortByRating(s) ==
    IF s = <<>>
    THEN <<>>
    ELSE LET front == SortByRating(SubSeq(s, 1, Len(s) - 1))
             x == s[Len(s)]
         IN  InsertAtPos(front, CountGE(front, x["average_rating"]), x)

\* TrieBasedRecommender.recommend_books
recommend_books(df, t, q, author, genre, min_rating) ==
    SortByRating(Filtered(df, Candidates(df, t, q), author, genre, min_rating))

-----------------------------------------------------------------------------
(* The datasets and inputs the model draws from *)

\* Columns a loaded table may have
AllColumns == {"title", "authors", "genre", "average_rating", "image_url"}

\* Rows a loaded table may hold.  Between them: a title of two words under
\* one prefix, a cased title, an author and a genre that are literally
\* "All", rows of equal rating, and a row with a repeated word.
Books ==
    { [title |-> <<"A", "b", " ", "a", "c">>, authors |-> <<"b">>,
       genre |-> ALL, average_rating |-> 4, image_url |-> <<"u">>],
      [title |-> <<"a", "c">>, authors |-> ALL,
       genre |-> <<"c">>, average_rating |-> 4, image_url |-> <<"u">>],
      [title |-> <<"b">>, authors |-> <<"b">>,
       genre |-> <<"c">>, average_rating |-> 3, image_url |-> <<"v">>],
      [title |-> <<"a", "b">>, authors |-> <<"d">>,
       genre |-> <<"c">>, average_rating |-> 5, image_url |-> <<"v">>] }

\* A row as read from a table that has only the columns cols
Restrict(book, cols) == [c \in cols |-> book[c]]

\* The tables of at most MaxBooks rows with the columns cols
Datasets(cols) ==
    UNION { [1..n -> {Restrict(b, cols) : b \in Books}] : n \in 0..MaxBooks }

\* What the user may type in the search box
Queries ==
    { <<>>, <<" ">>, <<"a">>, <<"A", "b">>, <<"b">>, <<"z">>, <<"a", "d">>,
      <<"a", " ">>, <<" ", "a">>, <<"a", " ", "b">> }

\* Words and identifiers of the direct Trie.insert / Trie.search calls
TrieAlphabet == {"a", "b"}

Words == UNION { [1..n -> TrieAlphabet] : n \in 0..MaxWordLen }

Ids == {0, 1}

\* The orders in which n rows can be visited
VisitOrders(n) ==
    { f \in [1..n -> 0..(n - 1)] : \A i, j \in 1..n : f[i] = f[j] => i = j }

-----------------------------------------------------------------------------
(* The page script *)

\* required_columns
required_columns == {"title", "authors", "genre", "average_rating"}

\* The options of the minimum-rating slider
RatingOptions == 1..5

\* The options of a select box: "All", then the column's values
Options(df, column) == {ALL} \cup { df[i][column] : i \in DOMAIN df }

\* A message that prints only the required columns that are absent (mutant)
ErrorMessageMissing(cols) ==
    [kind |-> "st.error", names |-> required_columns \ cols]

\* The message of st.error: it prints required_columns
ErrorMessage(cols) == [kind |-> "st.error", names |-> required_columns]

\* The column check without st.stop() (mutant)
CheckColumnsNoStop ==
    /\ pc = "check"
    /\ IF required_columns \subseteq columns
       THEN errors' = errors
       ELSE errors' = Append(errors, ErrorMessage(columns))
    /\ pc' = "construct"
    /\ UNCHANGED <<columns, books_df, order, constructed, trie, calls,
                   searched, prefix, found,
                   search_query, selected_author, selected_genre,
                   selected_rating, called, recommended_indices,
                   recommended_books>>

\* if not required_columns.issubset(books_df.columns): st.error(...); st.stop()
CheckColumns ==
    /\ pc = "check"
    /\ IF required_columns \subseteq columns
       THEN /\ pc' = "construct"
            /\ errors' = errors
       ELSE /\ errors' = Append(errors, ErrorMessage(columns))
            /\ pc' = "stopped"
    /\ UNCHANGED <<columns, books_df, order, constructed, trie, calls,
                   searched, prefix, found,
                   search_query, selected_author, selected_genre,
                   selected_rating, called, recommended_indices,
                   recommended_books>>

\* recommender = TrieBasedRecommender(books_df): a new Trie, then one insert
\* per word of each row's text.  Reading a row's missing text column raises
\* KeyError, which ends the script.
Construct ==
    /\ pc = "construct"
    /\ IF books_df # <<>> /\ ~({"title", "authors", "genre"} \subseteq columns)
       THEN /\ trie' = Trie
            /\ calls' = calls
            /\ constructed' = FALSE
            /\ pc' = "KeyError"
       ELSE /\ calls' = IndexCalls(books_df, order)
            /\ trie' = InsertAll(Trie, calls')
            /\ constructed' = TRUE
            /\ pc' = "inputs"
    /\ UNCHANGED <<columns, books_df, order, errors, searched, prefix, found,
                   search_query, selected_author, selected_genre,
                   selected_rating, called, recommended_indices,
                   recommended_books>>

\* The widgets' values, the reset, and the branch that calls recommend_books
\* or shows every row
GetRecommendations ==
    /\ pc = "inputs"
    /\ required_columns \subseteq columns
    /\ \E typed \in Queries, a \in Options(books_df, "authors"),
          g \in Options(books_df, "genre"), r \in RatingOptions,
          apply \in BOOLEAN, reset \in BOOLEAN :
          LET q == IF reset THEN <<>> ELSE typed
              author == IF reset THEN ALL ELSE a
              genre == IF reset THEN ALL ELSE g
              rating == IF reset THEN 1 ELSE r
              call == apply \/ q # <<>> \/ author # ALL \/ genre # ALL \/ rating > 1
          IN  /\ search_query' = q
              /\ selected_author' = author
              /\ selected_genre' = genre
              /\ selected_rating' = rating
              /\ called' = call
              /\ recommended_indices' =
                     IF call THEN Candidates(books_df, trie, q) ELSE <<>>
              /\ recommended_books' =
                     IF call
                     THEN recommend_books(books_df, trie, q, author, genre, rating)
                     ELSE books_df
    /\ pc' = "display"
    /\ UNCHANGED <<columns, books_df, order, errors, constructed, trie, calls,
                   searched, prefix, found>>

\* The state once load_data has returned a table
Init ==
    /\ columns \in SUBSET AllColumns
    /\ books_df \in Datasets(columns)
    /\ order = Range(Len(books_df))
    /\ pc = "check"
    /\ errors = <<>>
    /\ constructed = FALSE
    /\ trie = Trie
    /\ calls = <<>>
    /\ searched = FALSE
    /\ prefix = <<>>
    /\ found = <<>>
    /\ search_query = <<>>
    /\ selected_author = ALL
    /\ selected_genre = ALL
    /\ selected_rating = 1
    /\ called = FALSE
    /\ recommended_indices = <<>>
    /\ recommended_books = <<>>

Next == CheckColumns \/ Construct \/ GetRecommendations

Spec == Init /\ [][Next]_vars

-----------------------------------------------------------------------------
(* The constructor visiting the rows in any order, each row keeping its     *)
(* identifier                                                               *)

InitOrder ==
    /\ columns = AllColumns
    /\ books_df \in Datasets(columns)
    /\ order \in VisitOrders(Len(books_df))
    /\ pc = "check"
    /\ errors = <<>>
    /\ constructed = FALSE
    /\ trie = Trie
    /\ calls = <<>>
    /\ searched = FALSE
    /\ prefix = <<>>
    /\ found = <<>>
    /\ search_query = <<>>
    /\ selected_author = ALL
    /\ selected_genre = ALL
    /\ selected_rating = 1
    /\ called = FALSE
    /\ recommended_indices = <<>>
    /\ recommended_books = <<>>

SpecOrder == InitOrder /\ [][Next]_vars

-----------------------------------------------------------------------------
(* The Trie on its own: any sequence of insert calls, and searches          *)

TrieInsert ==
    /\ pc = "trie"
    /\ Len(calls) < MaxInserts
    /\ \E word \in Words, index \in Ids :
          /\ trie' = insert(trie, word, index)
          /\ calls' = Append(calls, <<word, index>>)
    /\ searched' = FALSE
    /\ prefix' = <<>>
    /\ found' = <<>>
    /\ UNCHANGED <<columns, books_df, order, pc, errors, constructed, search_query,
                   selected_author, selected_genre, selected_rating, called,
                   recommended_indices, recommended_books>>

TrieSearch ==
    /\ pc = "trie"
    /\ \E p \in Words :
          /\ prefix' = p
          /\ found' = search(trie, p)
    /\ searched' = TRUE
    /\ UNCHANGED <<columns, books_df, order, pc, errors, constructed, trie, calls,
                   search_query, selected_author, selected_genre,
                   selected_rating, called, recommended_indices,
                   recommended_books>>

InitTrie ==
    /\ columns = {}
    /\ books_df = <<>>
    /\ order = <<>>
    /\ pc = "trie"
    /\ errors = <<>>
    /\ constructed = FALSE
    /\ trie = Trie
    /\ calls = <<>>
    /\ searched = FALSE
    /\ prefix = <<>>
    /\ found = <<>>
    /\ search_query = <<>>
    /\ selected_author = ALL
    /\ selected_genre = ALL
    /\ selected_rating = 1
    /\ called = FALSE
    /\ recommended_indices = <<>>
    /\ recommended_books = <<>>

NextTrie == TrieInsert \/ TrieSearch

SpecTrie == InitTrie /\ [][NextTrie]_vars

-----------------------------------------------------------------------------
(* Vocabulary of the properties *)

\* Number of positions of s that hold x
Count(s, x) == Cardinality({i \in DOMAIN s : s[i] = x})

\* s starts with p
StartsWith(s, p) == Len(p) <= Len(s) /\ SubSeq(s, 1, Len(p)) = p

\* The word of an insert call starts with p
CallMatches(c, p) == StartsWith(c[1], p)

\* The identifiers of the insert calls made with exactly the word w, in order
RECURSIVE IdsInsertedWith(_, _)
IdsInsertedWith(cs, w) ==
    IF cs = <<>>
    THEN <<>>
    ELSE (IF Head(cs)[1] = w THEN <<Head(cs)[2]>> ELSE <<>>)
         \o IdsInsertedWith(Tail(cs), w)

\* Every node at or below `node`, with the string spelled by its path
RECURSIVE NodesBelow(_, _)
NodesBelow(node, path) ==
    {[path |-> path, node |-> node]}
        \cup UNION { NodesBelow(node.children[i].node,
                                Append(path, node.children[i].char)) :
                     i \in DOMAIN node.children }

\* The trie has an edge for every character of p, from the root on
RECURSIVE PathExists(_, _)
PathExists(node, p) ==
    \/ p = <<>>
    \/ \E i \in DOMAIN node.children :
           /\ node.children[i].char = Head(p)
           /\ PathExists(node.children[i].node, Tail(p))

\* A row passes the filters the script chose
PassesRow(book) ==
    /\ selected_author = ALL \/ book["authors"] = selected_author
    /\ selected_genre = ALL \/ book["genre"] = selected_genre
    /\ book["average_rating"] >= selected_rating

\* The row with identifier idx passes them
Passes(idx) == PassesRow(books_df[idx + 1])

\* The rows of the candidates that pass, in the candidates' order
KeptRows ==
    LET kept == SelectSeq(recommended_indices, Passes)
    IN  [i \in DOMAIN kept |-> books_df[kept[i] + 1]]

\* The rows of s rated r, in order
RatedIn(s, r) ==
    LET IsR(book) == book["average_rating"] = r IN SelectSeq(s, IsR)

Ratings == { b["average_rating"] : b \in Books }

RatingsOf(s) == [i \in DOMAIN s |-> s[i]["average_rating"]]

\* The query has a whitespace character and a character that is none
MixedQuery(q) ==
    /\ \E i \in DOMAIN q : IsSpace(q[i])
    /\ \E i \in DOMAIN q : ~IsSpace(q[i])

\* What recommend_books returns when the rows are indexed in dataset order
DatasetOrderResult ==
    recommend_books(books_df,
                    InsertAll(Trie, IndexCalls(books_df, Range(Len(books_df)))),
                    search_query, selected_author, selected_genre,
                    selected_rating)

-----------------------------------------------------------------------------
(* Properties *)

\* C1: after any sequence of insert calls, search(P) returns each identifier
\* once per insert call whose word starts with P, and nothing else:
\* duplicates stay, words that merely contain P do not count.
C1_SearchIsPrefixMultiset ==
    (pc = "trie" /\ searched) =>
        /\ \A i \in DOMAIN found : found[i] \in Ids
        /\ \A id \in Ids :
               Count(found, id) =
                   Cardinality({i \in DOMAIN calls :
                                   calls[i][2] = id /\ CallMatches(calls[i], prefix)})

\* C1 witness: one identifier inserted under two different words that share a
\* prefix is found twice under that prefix
C1_Witness ==
    /\ pc = "trie"
    /\ searched
    /\ prefix = <<"a">>
    /\ Len(calls) = 2
    /\ calls[1][1] # calls[2][1]
    /\ found = <<1, 1>>

\* C2: the list recommend_books returns holds a candidate's row iff the row
\* passes the author, genre and rating conditions, as many times as its
\* identifier occurs among the candidates; "All" excludes nothing.
C2_FilterKeepsExactlyPassing ==
    called =>
        /\ \A i \in DOMAIN recommended_books :
               \E j \in DOMAIN books_df : recommended_books[i] = books_df[j]
        /\ \A j \in DOMAIN books_df :
               Count(recommended_books, books_df[j]) =
                   Cardinality({i \in DOMAIN recommended_indices :
                                   /\ books_df[recommended_indices[i] + 1] = books_df[j]
                                   /\ Passes(recommended_indices[i])})

\* C2 witness: under author "All" a row whose author is literally "All" is
\* returned twice, while the genre filter drops another candidate
C2_Witness ==
    /\ called
    /\ selected_author = ALL
    /\ selected_genre # ALL
    /\ Len(recommended_books) < Len(recommended_indices)
    /\ \E i, j \in DOMAIN recommended_books :
           /\ i < j
           /\ recommended_books[i] = recommended_books[j]
           /\ recommended_books[i]["authors"] = ALL

\* C3: the returned list is non-increasing by rating, and rows of equal
\* rating keep the order they have among the filtered candidates.
C3_SortedAndStable ==
    called =>
        /\ \A i \in 1..(Len(recommended_books) - 1) :
               recommended_books[i]["average_rating"]
                   >= recommended_books[i + 1]["average_rating"]
        /\ \A r \in Ratings : RatedIn(recommended_books, r) = RatedIn(KeptRows, r)

\* C3 witness: two different rows of equal rating are returned side by side
C3_Witness ==
    /\ called
    /\ \E i \in 1..(Len(recommended_books) - 1) :
           /\ recommended_books[i] # recommended_books[i + 1]
           /\ recommended_books[i]["average_rating"]
                  = recommended_books[i + 1]["average_rating"]

\* C4: for an empty or whitespace-only query the candidates are the
\* identifiers 0..n-1 in dataset order, so each passing row is returned once
\* per identifier, rows of equal rating in dataset order.
C4_BlankQueryUsesDatasetOrder ==
    (called /\ Blank(search_query)) =>
        /\ recommended_indices = [i \in 1..Len(books_df) |-> i - 1]
        /\ Len(recommended_books)
               = Cardinality({j \in DOMAIN books_df : Passes(j - 1)})
        /\ \A r \in Ratings :
               RatedIn(recommended_books, r)
                   = RatedIn(SelectSeq(books_df, PassesRow), r)

\* C4 witness: a whitespace-only query returns both rows of a table whose
\* trie holds more entries than the table has rows
C4_Witness ==
    /\ called
    /\ search_query = <<" ">>
    /\ Len(books_df) = 2
    /\ Len(recommended_books) = 2
    /\ Len(search(trie, <<>>)) > 2

\* C5: a query with no path in the trie gives no candidates and an empty
\* list, whatever the filters.
C5_MissingPrefixGivesEmpty ==
    (called /\ ~Blank(search_query) /\ ~PathExists(trie, Lower(search_query))) =>
        /\ recommended_indices = <<>>
        /\ recommended_books = <<>>

\* C5 witness: the query's first character is in the trie, the second is not
C5_Witness ==
    /\ called
    /\ search_query = <<"a", "d">>
    /\ PathExists(trie, <<"a">>)
    /\ ~PathExists(trie, <<"a", "d">>)
    /\ recommended_books = <<>>

\* C6 as claimed: whatever the order in which the rows are indexed, the
\* returned list is the one obtained by indexing in dataset order.
C6_OrderIndependentList ==
    called => recommended_books = DatasetOrderResult

\* C6 amended: whatever the order in which the rows are indexed, the returned
\* list holds the same rows the same number of times and the same sequence of
\* ratings as the list obtained by indexing in dataset order.
C6_OrderIndependentBag ==
    called =>
        /\ \A j \in DOMAIN books_df :
               Count(recommended_books, books_df[j])
                   = Count(DatasetOrderResult, books_df[j])
        /\ RatingsOf(recommended_books) = RatingsOf(DatasetOrderResult)

\* C6 witness: the rows were indexed in another order and the list differs
C6_Witness ==
    /\ called
    /\ order # [i \in 1..Len(books_df) |-> i - 1]
    /\ recommended_books # DatasetOrderResult

\* C7: with a required column missing nothing is indexed: the script is at
\* the check or has stopped with the error shown, no Trie exists, no insert
\* was made and recommend_books was not called.
C7_MissingColumnStopsBeforeIndexing ==
    ~(required_columns \subseteq columns) =>
        /\ pc \in {"check", "stopped"}
        /\ pc = "stopped" => errors # <<>>
        /\ ~constructed
        /\ trie = Trie
        /\ calls = <<>>
        /\ ~called

\* C7 witness: the script has stopped on a table that has rows with text
C7_Witness ==
    /\ pc = "stopped"
    /\ columns = AllColumns \ {"average_rating"}
    /\ books_df # <<>>

\* C8 as claimed: the error names exactly the required columns that are absent.
C8_ErrorNamesMissing ==
    pc = "stopped" =>
        /\ Len(errors) = 1
        /\ errors[1].names = required_columns \ columns

\* C8 amended: a single error is shown, and it names all four required
\* columns whichever of them are absent.
C8_ErrorNamesRequired ==
    /\ pc = "stopped" =>
           /\ Len(errors) = 1
           /\ errors[1].names = {"title", "authors", "genre", "average_rating"}
    /\ pc # "stopped" => errors = <<>>

\* C8 witness: only one column is absent and the error names four
C8_Witness ==
    /\ pc = "stopped"
    /\ required_columns \ columns = {"genre"}
    /\ Cardinality(errors[1].names) = 4

\* C9: after any sequence of insert calls, a node's keys are distinct, every
\* inserted word has exactly one node, a node is terminal iff an inserted
\* word ends there, book_indices holds the identifiers inserted with the
\* node's word in insertion order (none if it is not terminal), and every
\* node but the root lies on the path of an inserted word.
C9_TrieShape ==
    pc = "trie" =>
        LET nodes == NodesBelow(trie, <<>>)
        IN  /\ \A n \in nodes :
                   \A i, j \in DOMAIN n.node.children :
                       n.node.children[i].char = n.node.children[j].char => i = j
            /\ \A k \in DOMAIN calls :
                   Cardinality({n \in nodes : n.path = calls[k][1]}) = 1
            /\ \A n \in nodes :
                   /\ n.node.is_end <=> \E k \in DOMAIN calls : calls[k][1] = n.path
                   /\ n.node.book_indices = IdsInsertedWith(calls, n.path)
                   /\ n.node.book_indices # <<>> => n.node.is_end
                   /\ n.path # <<>> =>
                          \E k \in DOMAIN calls : CallMatches(calls[k], n.path)

\* C9 witness: an empty word and a two-character word were inserted
C9_Witness ==
    /\ pc = "trie"
    /\ Len(calls) = 2
    /\ calls[1][1] = <<>>
    /\ Len(calls[2][1]) = 2
    /\ trie.is_end

\* C10: a query with a whitespace character and another character returns
\* the empty list for every table and every filter setting.
C10_MixedQueryGivesEmpty ==
    (called /\ MixedQuery(search_query)) => recommended_books = <<>>

\* C10 witness: "a " returns nothing although "a" alone has candidates and
\* no filter is set
C10_Witness ==
    /\ called
    /\ search_query = <<"a", " ">>
    /\ search(trie, <<"a">>) # <<>>
    /\ selected_author = ALL
    /\ selected_genre = ALL
    /\ selected_rating = 1
    /\ recommended_books = <<>>

====
